---- MODULE Spec2Model ----
(***************************************************************************)
(* Command layer of the Nitrokey HOTP verification tool over CCID          *)
(* (src/src/operations_ccid.c): set_pin_ccid, authenticate_ccid,           *)
(* set_secret_on_device_ccid, verify_code_ccid and status_ccid.            *)
(*                                                                         *)
(* A state holds the device session's two shared buffers, the position of  *)
(* the running invocation (pc) and its record: its inputs, what the codec  *)
(* and the transport were asked to do, the device's reply and what the     *)
(* caller got back.  Every operation blocks once, in the transport: an     *)
(* operation is one action up to the moment its request is handed over and *)
(* one action from the transport's return to its own.                      *)
(* Integers wider than 16 bits that can reach 2^31 (the 64-bit counter,    *)
(* the 32-bit code and serial number) are sequences of 16-bit limbs, most  *)
(* significant first.                                                      *)
(***************************************************************************)
EXTENDS Integers, Sequences, FiniteSets

VARIABLES dev, pc, last

vars == <<dev, pc, last>>

(***************************************************************************)
(* Bounds of the model.                                                    *)
(***************************************************************************)
\* capacity of dev->ccid_buffer_out and dev->ccid_buffer_in (device.h)
BufSize == 144
\* longest PIN text tried, in bytes
MaxPinLen == 129
\* longest base32 secret text tried, in characters
MaxSecretChars == 66

(***************************************************************************)
(* Constants of the program.                                               *)
(***************************************************************************)
SW_SUCCESS == 36864
SW_WRONG_PIN == 25344
SW_NOT_FOUND == 27266
SW_SECURITY_STATUS == 27010
AUTH_PIN_LIMIT == 30
GENERIC_FAILURE == 1

\* settings.h, return_codes.h, tlv.h, ccid.h: outside the file
MAX_PIN_SIZE_CCID == 128
HOTP_SECRET_SIZE_BYTES == 40
HOTP_CODE_USE_8_DIGITS == FALSE
SLOT_NAME == <<72, 79, 84, 80>>
SLOT_NAME_LEN == Len(SLOT_NAME)
RET_NO_ERROR == 0
RET_VALIDATION_PASSED == 0
RET_VALIDATION_FAILED == 1
RET_WRONG_PIN == 8
RET_NO_PIN_ATTEMPTS == 7
RET_SLOT_NOT_CONFIGURED == 9
RET_SECURITY_STATUS_NOT_SATISFIED == 10
RET_COMM_ERROR == 6
Tag_CredentialId == 113
Tag_Key == 115
Tag_Response == 117
Tag_Properties == 120
Tag_Version == 121
Tag_InitialCounter == 122
Tag_Password == 128
Tag_PINCounter == 130
Tag_SerialNumber == 143
Ins_Put == 1
Ins_VerifyCode == 177
Ins_VerifyPIN == 178
Ins_SetPIN == 180
Kind_HotpReverse == 48
Algo_Sha1 == 1

(***************************************************************************)
(* Bytes, C strings, buffers.                                              *)
(***************************************************************************)
Min(a, b) == IF a < b THEN a ELSE b

Zeros(n) == [i \in 1..n |-> 0]

\* a C string: the text's bytes followed by the terminating NUL
CStr(text) == text \o <<0>>

\* strnlen(s, maxlen): the index of the first NUL among the first maxlen
\* bytes, maxlen when there is none
strnlen(s, maxlen) ==
  LET nul == {i \in 1..Min(Len(s), maxlen) : s[i] = 0}
  IN  IF nul = {} THEN maxlen
      ELSE (CHOOSE i \in nul : \A j \in nul : i <= j) - 1

\* memcpy(buf, bytes, Len(bytes)) at offset 0
Overwrite(buf, bytes) ==
  [i \in 1..Len(buf) |-> IF i <= Len(bytes) THEN bytes[i] ELSE buf[i]]

\* htobe32 of a 32-bit value held as two 16-bit limbs
BE32(v) == <<v[1] \div 256, v[1] % 256, v[2] \div 256, v[2] % 256>>

(***************************************************************************)
(* TLV codec (tlv.h): the fields of a request packed behind the APDU       *)
(* header CLA INS P1 P2 Lc.  'S' and 'R' fields carry tag and length, a    *)
(* 'B' field is copied as it is, an 'I' field is four big-endian bytes.    *)
(***************************************************************************)
process_TLV(t) ==
  CASE t.type = "S" -> <<t.tag, t.length>> \o SubSeq(t.v, 1, t.length)
    [] t.type = "R" -> <<t.tag, t.length>> \o SubSeq(t.v, 1, t.length)
    [] t.type = "B" -> SubSeq(t.v, 1, t.length)
    [] t.type = "I" -> <<t.tag, t.length>> \o BE32(t.v)

RECURSIVE pack_tlvs(_)
pack_tlvs(tlvs) ==
  IF tlvs = <<>> THEN <<>>
  ELSE process_TLV(Head(tlvs)) \o pack_tlvs(Tail(tlvs))

\* the bytes icc_pack_tlvs_for_sending writes at the start of the buffer
icc_request(tlvs, ins) ==
  LET body == pack_tlvs(tlvs)
  IN  <<0, ins, 0, 0, Len(body)>> \o body

icc_pack_tlvs_for_sending(buf, tlvs, ins) ==
  [buf |-> Overwrite(buf, icc_request(tlvs, ins)),
   len |-> Len(icc_request(tlvs, ins))]

(***************************************************************************)
(* Session buffers and transport (device.h, ccid.h).                       *)
(***************************************************************************)
clean_buffers(d) ==
  [ccid_buffer_out |-> Zeros(Len(d.ccid_buffer_out)),
   ccid_buffer_in  |-> Zeros(Len(d.ccid_buffer_in))]

\* what a test double in place of clean_buffers, the codec and the transport
\* records: the call, and for the transport the bytes it is handed
Ev(name, bytes) == [ev |-> name, bytes |-> bytes]

\* rassert(cond) failing: the process ends there (utils.h)
Aborted(d, cause) ==
  [dev |-> d, pc |-> "aborted", cause |-> cause, events |-> <<>>]

\* the request encoded over whatever the buffers hold
send_tlvs_no_clean(d, tlvs, ins) ==
  LET pk == icc_pack_tlvs_for_sending(d.ccid_buffer_out, tlvs, ins)
      d2 == [d EXCEPT !.ccid_buffer_out = pk.buf]
  IN  [dev |-> d2, pc |-> "exchange", cause |-> "",
       events |-> <<Ev("clean", <<>>), Ev("pack", <<>>),
                    Ev("exchange", SubSeq(d2.ccid_buffer_out, 1, pk.len))>>]

\* the steps common to the four field-built operations (lines 45-53,
\* 77-84, 146-154, 193-201): clear, encode, hand over to the transport
send_tlvs(d, tlvs, ins) ==
  LET d1 == clean_buffers(d)
      pk == icc_pack_tlvs_for_sending(d1.ccid_buffer_out, tlvs, ins)
      d2 == [d1 EXCEPT !.ccid_buffer_out = pk.buf]
  IN  [dev |-> d2, pc |-> "exchange", cause |-> "",
       events |-> <<Ev("clean", <<>>), Ev("pack", <<>>),
                    Ev("exchange", SubSeq(d2.ccid_buffer_out, 1, pk.len))>>]

\* ccid_process_single returning: on success the reply's bytes (data, then
\* the status word) are in the receive buffer and iccResult describes them
ccid_process_single(buf_in, reply) ==
  IF reply.r # 0
    THEN [r |-> reply.r, buf_in |-> buf_in,
          data |-> <<>>, data_len |-> 0, data_status_code |-> 0]
    ELSE [r |-> 0,
          buf_in |-> Overwrite(buf_in,
                        reply.data \o <<reply.sw \div 256, reply.sw % 256>>),
          data |-> reply.data, data_len |-> Len(reply.data),
          data_status_code |-> reply.sw]

(***************************************************************************)
(* set_pin_ccid, lines 35-64.                                              *)
(***************************************************************************)
set_pin_ccid_send(d, admin_PIN) ==
  LET tlvs == <<[tag |-> Tag_Password,
                 length |-> strnlen(admin_PIN, MAX_PIN_SIZE_CCID),
                 type |-> "S", v |-> admin_PIN]>>
  IN  send_tlvs(d, tlvs, Ins_SetPIN)

\* a transport failure reported as the generic failure
set_pin_ccid_result_masks_r(icc) ==
  IF icc.r # 0 THEN 1
  ELSE IF icc.data_status_code # SW_SUCCESS THEN 1
  ELSE 0

set_pin_ccid_result(icc) ==
  IF icc.r # 0 THEN icc.r
  ELSE IF icc.data_status_code # SW_SUCCESS THEN 1
  ELSE 0

(***************************************************************************)
(* authenticate_ccid, lines 67-100.                                        *)
(***************************************************************************)
\* the limit of set_pin_ccid used for authenticate_ccid as well
authenticate_ccid_send_long(d, admin_PIN) ==
  LET tlvs == <<[tag |-> Tag_Password,
                 length |-> strnlen(admin_PIN, MAX_PIN_SIZE_CCID),
                 type |-> "S", v |-> admin_PIN]>>
  IN  send_tlvs(d, tlvs, Ins_VerifyPIN)

authenticate_ccid_send(d, admin_PIN) ==
  LET tlvs == <<[tag |-> Tag_Password,
                 length |-> strnlen(admin_PIN, AUTH_PIN_LIMIT),
                 type |-> "S", v |-> admin_PIN]>>
  IN  send_tlvs(d, tlvs, Ins_VerifyPIN)

\* the wrong-PIN branch missing
authenticate_ccid_result_no_wrong_pin(icc) ==
  IF icc.r # 0 THEN icc.r
  ELSE IF icc.data_status_code # SW_SUCCESS THEN 1
  ELSE RET_NO_ERROR

authenticate_ccid_result(icc) ==
  IF icc.r # 0 THEN icc.r
  ELSE IF icc.data_status_code = SW_WRONG_PIN THEN RET_WRONG_PIN
  ELSE IF icc.data_status_code # SW_SUCCESS THEN 1
  ELSE RET_NO_ERROR

(***************************************************************************)
(* base32_decode (base32.h): eight characters give five bytes; the text's  *)
(* 5-bit digits are regrouped into bytes, trailing bits dropped.           *)
(***************************************************************************)
b32val(c) == IF c >= 65 /\ c <= 90 THEN c - 65 ELSE c - 24

Pow2(n) == IF n = 0 THEN 1 ELSE IF n = 1 THEN 2 ELSE IF n = 2 THEN 4
           ELSE IF n = 3 THEN 8 ELSE IF n = 4 THEN 16 ELSE IF n = 5 THEN 32
           ELSE IF n = 6 THEN 64 ELSE 128

\* the decoder's loop: acc holds the nbits bits not yet written out
RECURSIVE b32loop(_, _, _, _)
b32loop(cstr, i, acc, nbits) ==
  IF i > Len(cstr) \/ cstr[i] = 0 THEN <<>>
  ELSE
    LET a == acc * 32 + b32val(cstr[i])
        n == nbits + 5
    IN  IF n >= 8
          THEN <<a \div Pow2(n - 8)>>
               \o b32loop(cstr, i + 1, a % Pow2(n - 8), n - 8)
          ELSE b32loop(cstr, i + 1, a, n)

\* the base32 secrets tried
\* "JBSWY3DPEHPK3PXP"
TestSecret == <<74, 66, 83, 87, 89, 51, 68, 80, 69, 72, 80, 75, 51, 80, 88, 80>>

Base32Alphabet == <<65, 66, 67, 68, 69, 70, 71, 72, 73, 74, 75, 76, 77, 78,
                    79, 80, 81, 82, 83, 84, 85, 86, 87, 88, 89, 90,
                    50, 51, 52, 53, 54, 55>>

SecretText(n) == [i \in 1..n |-> Base32Alphabet[((7 * i) % 32) + 1]]

\* texts decoding to 38, 40 and more than 40 bytes
SecretLens == {61, 64, MaxSecretChars}

Secrets == {CStr(TestSecret)} \cup {CStr(SecretText(n)) : n \in SecretLens}

\* the decoder's results on the secrets tried, computed once
DecodedSecrets == [s \in Secrets |-> b32loop(s, 1, 0, 0)]

base32_decode(cstr) ==
  IF cstr \in Secrets THEN DecodedSecrets[cstr] ELSE b32loop(cstr, 1, 0, 0)

(***************************************************************************)
(* 64-bit unsigned values as four 16-bit limbs.                            *)
(***************************************************************************)
U64Less(a, b) ==
  \E i \in 1..4 : a[i] < b[i] /\ \A j \in 1..(i - 1) : a[j] = b[j]

\* the literal 0xFFFFFFFF of line 115, converted to uint64_t
U32_MAX_AS_U64 == <<0, 0, 65535, 65535>>

\* uint32_t x = (uint64_t) v, line 116: the low 32 bits
TruncU32(v) == <<v[3], v[4]>>

(***************************************************************************)
(* set_secret_on_device_ccid, lines 103-172.  base32_decode writes into a  *)
(* buffer of HOTP_SECRET_SIZE_BYTES + 2 bytes from offset 2 before its     *)
(* result is checked: a longer secret overruns the buffer, and the build   *)
(* either faults there (ub) or goes on to the rassert of line 107.         *)
(***************************************************************************)
\* the two bytes in front of the key forgotten
secret_fits_key_only(n_decoded) == n_decoded <= HOTP_SECRET_SIZE_BYTES + 2

\* line 107, with decoded_length of line 106
secret_fits(n_decoded) ==
  LET decoded_length == n_decoded + 2
  IN  decoded_length <= HOTP_SECRET_SIZE_BYTES

\* <= for <
counter_in_range_le(hotp_counter) ==
  U64Less(hotp_counter, U32_MAX_AS_U64) \/ hotp_counter = U32_MAX_AS_U64

\* line 115
counter_in_range(hotp_counter) == U64Less(hotp_counter, U32_MAX_AS_U64)

set_secret_tlvs(decoded, hotp_counter) ==
  LET decoded_length == Len(decoded) + 2
      binary_secret_buf ==
        <<Kind_HotpReverse + Algo_Sha1,
          IF HOTP_CODE_USE_8_DIGITS THEN 8 ELSE 6>> \o decoded
      properties == <<Tag_Properties, 0>>
      initial_counter_value == TruncU32(hotp_counter)
  IN  <<[tag |-> Tag_CredentialId, length |-> SLOT_NAME_LEN,
         type |-> "S", v |-> SLOT_NAME],
        [tag |-> Tag_Key, length |-> decoded_length,
         type |-> "R", v |-> binary_secret_buf],
        [tag |-> Tag_Properties, length |-> 2,
         type |-> "B", v |-> properties],
        [tag |-> Tag_InitialCounter, length |-> 4,
         type |-> "I", v |-> initial_counter_value]>>

set_secret_on_device_ccid_send(d, OTP_secret_base32, hotp_counter, ub) ==
  LET decoded == base32_decode(OTP_secret_base32)
      overrun == Len(decoded) > HOTP_SECRET_SIZE_BYTES
  IN  IF overrun /\ ub THEN Aborted(d, "buffer overrun")
      ELSE IF ~secret_fits(Len(decoded)) THEN Aborted(d, "rassert secret")
      ELSE IF ~counter_in_range(hotp_counter)
        THEN Aborted(d, "rassert counter")
      ELSE send_tlvs(d, set_secret_tlvs(decoded, hotp_counter), Ins_Put)

\* the security-status branch missing
set_secret_on_device_ccid_result_no_6982(icc) ==
  IF icc.r # 0 THEN icc.r
  ELSE IF icc.data_status_code = SW_NOT_FOUND THEN RET_NO_PIN_ATTEMPTS
  ELSE IF icc.data_status_code # SW_SUCCESS THEN RET_VALIDATION_FAILED
  ELSE RET_NO_ERROR

set_secret_on_device_ccid_result(icc) ==
  IF icc.r # 0 THEN icc.r
  ELSE IF icc.data_status_code = SW_NOT_FOUND THEN RET_NO_PIN_ATTEMPTS
  ELSE IF icc.data_status_code = SW_SECURITY_STATUS
    THEN RET_SECURITY_STATUS_NOT_SATISFIED
  ELSE IF icc.data_status_code # SW_SUCCESS THEN RET_VALIDATION_FAILED
  ELSE RET_NO_ERROR

(***************************************************************************)
(* verify_code_ccid, lines 174-216.                                        *)
(***************************************************************************)
verify_code_ccid_send(d, code_to_verify) ==
  LET tlvs == <<[tag |-> Tag_CredentialId, length |-> SLOT_NAME_LEN,
                 type |-> "S", v |-> SLOT_NAME],
                [tag |-> Tag_Response, length |-> 4,
                 type |-> "I", v |-> code_to_verify]>>
  IN  send_tlvs(d, tlvs, Ins_VerifyCode)

\* the two status-word tests in the other order
verify_code_ccid_result_swapped(icc) ==
  IF icc.r # 0 THEN icc.r
  ELSE IF icc.data_status_code # SW_SUCCESS THEN RET_VALIDATION_FAILED
  ELSE IF icc.data_status_code = SW_NOT_FOUND THEN RET_SLOT_NOT_CONFIGURED
  ELSE RET_VALIDATION_PASSED

verify_code_ccid_result(icc) ==
  IF icc.r # 0 THEN icc.r
  ELSE IF icc.data_status_code = SW_NOT_FOUND THEN RET_SLOT_NOT_CONFIGURED
  ELSE IF icc.data_status_code # SW_SUCCESS THEN RET_VALIDATION_FAILED
  ELSE RET_VALIDATION_PASSED

(***************************************************************************)
(* get_tlv (tlv.h): the first field with the tag, scanning tag, length,    *)
(* value.  off is the index of the value's first byte (v_data).            *)
(***************************************************************************)
RECURSIVE tlv_scan(_, _, _)
tlv_scan(data, i, tag) ==
  IF i + 1 > Len(data)
    THEN [r |-> 1, tag |-> 0, length |-> 0, off |-> 0]
  ELSE IF data[i] = tag
    THEN [r |-> RET_NO_ERROR, tag |-> tag, length |-> data[i + 1],
          off |-> i + 2]
  ELSE tlv_scan(data, i + 2 + data[i + 1], tag)

get_tlv(data, data_len, tag) == tlv_scan(SubSeq(data, 1, data_len), 1, tag)

\* the two bytes read in host order on a little-endian host
le16_at(data, off) == data[off + 1] * 256 + data[off]

\* be16toh(*(uint16_t *) p) and be32toh(*(uint32_t *) p)
be16_at(data, off) == data[off] * 256 + data[off + 1]

be32_at(data, off) == <<be16_at(data, off), be16_at(data, off + 2)>>

\* send_select_ccid (ccid.h) returning: the one exchange of status_ccid
send_select_ccid(reply) ==
  IF reply.r # 0
    THEN [r |-> reply.r, data |-> <<>>, data_len |-> 0,
          data_status_code |-> 0]
    ELSE [r |-> RET_NO_ERROR, data |-> reply.data,
          data_len |-> Len(reply.data), data_status_code |-> reply.sw]

(***************************************************************************)
(* status_ccid, lines 218-263.  out holds the caller's three variables as  *)
(* they are when the call is made; the four pointers are not NULL.         *)
(***************************************************************************)
status_ccid_send(d) ==
  [dev |-> d, pc |-> "exchange", cause |-> "",
   events |-> <<Ev("exchange", <<>>)>>]

\* the attempt counter consulted before the version, which is not zeroed
status_ccid_fields_counter_first(icc, out) ==
  LET counter_tlv == get_tlv(icc.data, icc.data_len, Tag_PINCounter)
      out1 == [out EXCEPT !.attempt_counter =
                IF ~(counter_tlv.r = RET_NO_ERROR
                     /\ counter_tlv.tag = Tag_PINCounter)
                  THEN -1 ELSE icc.data[counter_tlv.off]]
      serial_tlv == get_tlv(icc.data, icc.data_len, Tag_SerialNumber)
      out2 == [out1 EXCEPT !.serial_number =
                IF serial_tlv.r = RET_NO_ERROR
                   /\ serial_tlv.tag = Tag_SerialNumber
                  THEN be32_at(icc.data, serial_tlv.off) ELSE <<0, 0>>]
      version_tlv == get_tlv(icc.data, icc.data_len, Tag_Version)
  IN  IF out2.attempt_counter = -1
        THEN [ret |-> RET_NO_PIN_ATTEMPTS, outv |-> out2]
      ELSE IF ~(version_tlv.r = RET_NO_ERROR /\ version_tlv.tag = Tag_Version)
        THEN [ret |-> RET_COMM_ERROR, outv |-> out2]
      ELSE [ret |-> RET_NO_ERROR,
            outv |-> [out2 EXCEPT !.firmware_version =
                        be16_at(icc.data, version_tlv.off)]]

\* lines 233-262
status_ccid_fields(icc, out) ==
  LET counter_tlv == get_tlv(icc.data, icc.data_len, Tag_PINCounter)
      out1 == [out EXCEPT !.attempt_counter =
                IF ~(counter_tlv.r = RET_NO_ERROR
                     /\ counter_tlv.tag = Tag_PINCounter)
                  THEN -1 ELSE icc.data[counter_tlv.off]]
      serial_tlv == get_tlv(icc.data, icc.data_len, Tag_SerialNumber)
      out2 == [out1 EXCEPT !.serial_number =
                IF serial_tlv.r = RET_NO_ERROR
                   /\ serial_tlv.tag = Tag_SerialNumber
                  THEN be32_at(icc.data, serial_tlv.off) ELSE <<0, 0>>]
      version_tlv == get_tlv(icc.data, icc.data_len, Tag_Version)
  IN  IF ~(version_tlv.r = RET_NO_ERROR /\ version_tlv.tag = Tag_Version)
        THEN [ret |-> RET_COMM_ERROR,
              outv |-> [out2 EXCEPT !.firmware_version = 0]]
      ELSE
        LET out3 == [out2 EXCEPT !.firmware_version =
                       be16_at(icc.data, version_tlv.off)]
        IN  IF out3.attempt_counter = -1
              THEN [ret |-> RET_NO_PIN_ATTEMPTS, outv |-> out3]
            ELSE [ret |-> RET_NO_ERROR, outv |-> out3]

\* lines 226-231, then the fields
status_ccid_result(icc, out) ==
  IF icc.r # RET_NO_ERROR THEN [ret |-> icc.r, outv |-> out]
  ELSE IF icc.data_len = 0 \/ icc.data_status_code # SW_SUCCESS
    THEN [ret |-> RET_COMM_ERROR, outv |-> out]
  ELSE status_ccid_fields(icc, out)

(***************************************************************************)
(* Inputs: PIN texts, base32 secrets, counters, codes, device replies.     *)
(***************************************************************************)
PinText(n) == [i \in 1..n |-> 49 + (i % 9)]

PinLens == {AUTH_PIN_LIMIT, AUTH_PIN_LIMIT + 1, MAX_PIN_SIZE_CCID, MaxPinLen}

\* "0000"
TestPin == <<48, 48, 48, 48>>

Pins == {CStr(TestPin)} \cup {CStr(PinText(n)) : n \in PinLens}

\* 0, 0xFFFFFFFE, 0xFFFFFFFF, 0x100000005
Counters == {<<0, 0, 0, 0>>, <<0, 0, 65535, 65534>>,
             <<0, 0, 65535, 65535>>, <<0, 1, 0, 5>>}

\* 123456 and 0xFFFFFFFF
Codes == {<<1, 57920>>, <<65535, 65535>>}

TransportErrors == {-1, 3}

\* the four the code names, and 0x6F00
StatusWords == {SW_SUCCESS, SW_WRONG_PIN, SW_NOT_FOUND, SW_SECURITY_STATUS,
                28416}

NoFields == [ver |-> <<>>, ctr |-> <<>>, ser |-> <<>>, extra |-> FALSE]

\* a field of the select response, absent when v is empty
Field(tag, v) == IF v = <<>> THEN <<>> ELSE <<tag, Len(v)>> \o v

\* the device's select response; with extra, a field of another tag comes
\* first and the three fields in the opposite order
SelectData(f) ==
  IF f.extra
    THEN <<123, 1, 1>> \o Field(Tag_SerialNumber, f.ser)
         \o Field(Tag_PINCounter, f.ctr) \o Field(Tag_Version, f.ver)
    ELSE Field(Tag_Version, f.ver) \o Field(Tag_PINCounter, f.ctr)
         \o Field(Tag_SerialNumber, f.ser)

SelectFields ==
  {f \in [ver : {<<>>, <<1, 0>>}, ctr : {<<>>, <<0>>, <<255>>},
          ser : {<<>>, <<222, 173, 190, 239>>}, extra : BOOLEAN] :
     f.extra => f.ctr # <<0>> /\ (f.ver = <<>> <=> f.ser = <<>>)}

FailedReply(r) == [r |-> r, sw |-> 0, data |-> <<>>, fields |-> NoFields]

NoReply == FailedReply(0)

Replies ==
  {FailedReply(r) : r \in TransportErrors}
  \cup {[r |-> 0, sw |-> w, data |-> <<>>, fields |-> NoFields] :
           w \in StatusWords}
  \cup {[r |-> 0, sw |-> SW_SUCCESS, data |-> <<170, 187, 204>>,
         fields |-> NoFields]}

SelectReplies ==
  {FailedReply(r) : r \in TransportErrors}
  \cup {[r |-> 0, sw |-> SW_SUCCESS, data |-> SelectData(f), fields |-> f] :
           f \in SelectFields}
  \cup {[r |-> 0, sw |-> SW_NOT_FOUND, data |-> SelectData(f), fields |-> f] :
           f \in {g \in SelectFields : g.ser = <<>> /\ g.ctr = <<>>
                                       /\ ~g.extra}}

\* the caller's three output variables of status_ccid
NoOut == [attempt_counter |-> 0, firmware_version |-> 0,
          serial_number |-> <<0, 0>>]

\* the caller's variables before status_ccid: zeroed, or left as they were
CallerOut == {NoOut, [attempt_counter |-> 77, firmware_version |-> 48879,
                      serial_number |-> <<1, 2>>]}

(***************************************************************************)
(* The state machine.  A ...Call action is the operation up to the moment  *)
(* the transport has its request (or the rassert that ends the process), a *)
(* ...Return action is the transport returning and the operation's         *)
(* interpretation of the result.                                           *)
(***************************************************************************)
NoArgs == [pin |-> <<>>, secret |-> <<>>, counter |-> <<0, 0, 0, 0>>,
           code |-> <<0, 0>>, prev |-> NoOut]

Init ==
  /\ dev = [ccid_buffer_out |-> Zeros(BufSize),
            ccid_buffer_in |-> Zeros(BufSize)]
  /\ pc = "idle"
  /\ last = [op |-> "none", pin |-> <<>>, secret |-> <<>>,
             counter |-> <<0, 0, 0, 0>>, code |-> <<0, 0>>, prev |-> NoOut,
             stale |-> FALSE, cause |-> "", events |-> <<>>,
             reply |-> NoReply, ret |-> 0, outv |-> NoOut]

\* the call is evaluated once, then the state is updated from its result;
\* stale records whether the call found bytes of an earlier command in the
\* session buffers
Call(op, args, send) ==
  /\ pc = "idle"
  /\ \E s \in {send} :
       /\ dev' = s.dev
       /\ pc' = s.pc
       /\ last' = [op |-> op, pin |-> args.pin, secret |-> args.secret,
                   counter |-> args.counter, code |-> args.code,
                   prev |-> args.prev, stale |-> dev.ccid_buffer_out # Zeros(BufSize)
                             \/ dev.ccid_buffer_in # Zeros(BufSize),
                   cause |-> s.cause,
                   events |-> s.events, reply |-> NoReply, ret |-> 0,
                   outv |-> args.prev]

Return(op, reply, buf_in, ret, outv) ==
  /\ pc = "exchange"
  /\ last.op = op
  /\ dev' = [dev EXCEPT !.ccid_buffer_in = buf_in]
  /\ pc' = "idle"
  /\ last' = [last EXCEPT !.reply = reply, !.ret = ret, !.outv = outv]

SetPinCall ==
  \E pin \in Pins :
    Call("set_pin", [NoArgs EXCEPT !.pin = pin], set_pin_ccid_send(dev, pin))

SetPinReturn ==
  \E reply \in Replies :
    \E icc \in {ccid_process_single(dev.ccid_buffer_in, reply)} :
      Return("set_pin", reply, icc.buf_in, set_pin_ccid_result(icc), NoOut)

AuthenticateCall ==
  \E pin \in Pins :
    Call("authenticate", [NoArgs EXCEPT !.pin = pin],
         authenticate_ccid_send(dev, pin))

AuthenticateReturn ==
  \E reply \in Replies :
    \E icc \in {ccid_process_single(dev.ccid_buffer_in, reply)} :
      Return("authenticate", reply, icc.buf_in,
             authenticate_ccid_result(icc), NoOut)

SetSecretCall ==
  \E secret \in Secrets, counter \in Counters, ub \in BOOLEAN :
    Call("set_secret",
         [NoArgs EXCEPT !.secret = secret, !.counter = counter],
         set_secret_on_device_ccid_send(dev, secret, counter, ub))

SetSecretReturn ==
  \E reply \in Replies :
    \E icc \in {ccid_process_single(dev.ccid_buffer_in, reply)} :
      Return("set_secret", reply, icc.buf_in,
             set_secret_on_device_ccid_result(icc), NoOut)

VerifyCodeCall ==
  \E code \in Codes :
    Call("verify_code", [NoArgs EXCEPT !.code = code],
         verify_code_ccid_send(dev, code))

VerifyCodeReturn ==
  \E reply \in Replies :
    \E icc \in {ccid_process_single(dev.ccid_buffer_in, reply)} :
      Return("verify_code", reply, icc.buf_in,
             verify_code_ccid_result(icc), NoOut)

StatusCall ==
  \E prev \in CallerOut :
    Call("status", [NoArgs EXCEPT !.prev = prev], status_ccid_send(dev))

StatusReturn ==
  \E reply \in SelectReplies :
    \E res \in {status_ccid_result(send_select_ccid(reply), last.prev)} :
      Return("status", reply, dev.ccid_buffer_in, res.ret, res.outv)

Next ==
  \/ SetPinCall \/ SetPinReturn
  \/ AuthenticateCall \/ AuthenticateReturn
  \/ SetSecretCall \/ SetSecretReturn
  \/ VerifyCodeCall \/ VerifyCodeReturn
  \/ StatusCall \/ StatusReturn

Spec == Init /\ [][Next]_vars

(***************************************************************************)
(* Vocabulary of the properties.                                           *)
(***************************************************************************)
\* transport exchanges of the invocation in last
Exchanges ==
  Cardinality({i \in DOMAIN last.events : last.events[i].ev = "exchange"})

\* the invocation of op has returned to its caller
Done(op) == pc = "idle" /\ last.op = op

\* ... after a transport exchange that succeeded
DoneOk(op) == Done(op) /\ last.reply.r = 0

\* the request bytes handed to the transport by a field-built operation
Request == last.events[Len(last.events)].bytes

FieldBuilt == {"set_pin", "authenticate", "set_secret", "verify_code"}

\* strlen of a C string input
StrLen(cstr) == Len(cstr) - 1

\* C1: when the exchange of authenticate_ccid succeeds, the result is
\* RET_WRONG_PIN exactly for status word 0x6300, RET_NO_ERROR exactly for
\* 0x9000, and the generic failure (1) for every other status word.
C1_AuthenticatePartition ==
  DoneOk("authenticate") =>
    /\ (last.ret = RET_WRONG_PIN <=> last.reply.sw = 25344)
    /\ (last.ret = RET_NO_ERROR <=> last.reply.sw = 36864)
    /\ (last.reply.sw \notin {25344, 36864} => last.ret = GENERIC_FAILURE)

C1_Witness ==
  /\ DoneOk("authenticate")
  /\ last.pin = CStr(TestPin)
  /\ last.reply.sw = 25344
  /\ last.ret = RET_WRONG_PIN

\* C2: when the exchange of verify_code_ccid succeeds, for every code the
\* result is RET_VALIDATION_PASSED exactly for status word 0x9000,
\* RET_SLOT_NOT_CONFIGURED exactly for 0x6A82, and RET_VALIDATION_FAILED for
\* every other status word.
C2_VerifyCodePartition ==
  DoneOk("verify_code") =>
    /\ (last.ret = RET_VALIDATION_PASSED <=> last.reply.sw = 36864)
    /\ (last.ret = RET_SLOT_NOT_CONFIGURED <=> last.reply.sw = 27266)
    /\ (last.reply.sw \notin {36864, 27266}
          => last.ret = RET_VALIDATION_FAILED)

C2_Witness ==
  /\ DoneOk("verify_code")
  /\ last.code = <<1, 57920>>
  /\ last.reply.sw = 27266
  /\ last.ret = RET_SLOT_NOT_CONFIGURED

\* C3: when set_secret_on_device_ccid passes both input checks and its
\* exchange succeeds, 0x6A82 gives RET_NO_PIN_ATTEMPTS, 0x6982 gives
\* RET_SECURITY_STATUS_NOT_SATISFIED, 0x9000 gives RET_NO_ERROR, every other
\* status word gives RET_VALIDATION_FAILED, and RET_NO_ERROR is returned for
\* 0x9000 only.
C3_SetSecretStatusMap ==
  DoneOk("set_secret") =>
    /\ (last.reply.sw = 27266 => last.ret = RET_NO_PIN_ATTEMPTS)
    /\ (last.reply.sw = 27010
          => last.ret = RET_SECURITY_STATUS_NOT_SATISFIED)
    /\ (last.reply.sw = 36864 => last.ret = RET_NO_ERROR)
    /\ (last.reply.sw \notin {27266, 27010, 36864}
          => last.ret = RET_VALIDATION_FAILED)
    /\ (last.ret = RET_NO_ERROR => last.reply.sw = 36864)

C3_Witness ==
  /\ DoneOk("set_secret")
  /\ last.reply.sw = 27010
  /\ last.ret = RET_SECURITY_STATUS_NOT_SATISFIED

\* bytes the decoder produces for a base32 text: five for eight characters
DecodedLen(cstr) == (5 * StrLen(cstr)) \div 8

\* C4: a set_secret_on_device_ccid call whose secret decodes to more than
\* HOTP_SECRET_SIZE_BYTES bytes ends before the transport: no exchange, and
\* the session buffers are neither cleared nor encoded into.
C4_OversizedSecretFailsFast ==
  [][(pc = "idle" /\ last'.op = "set_secret" /\ pc' # "idle"
       /\ DecodedLen(last'.secret) > HOTP_SECRET_SIZE_BYTES)
      => /\ pc' = "aborted"
         /\ last'.events = <<>>
         /\ dev' = dev]_vars

C4_Witness ==
  /\ pc = "aborted"
  /\ last.op = "set_secret"
  /\ DecodedLen(last.secret) > HOTP_SECRET_SIZE_BYTES
  /\ Exchanges = 0
  /\ last.stale
  /\ dev.ccid_buffer_out # Zeros(BufSize)

\* the counter is below 2^32 - 1, resp. below 2^32 - 2
Below_FFFFFFFF(c) == c[1] = 0 /\ c[2] = 0 /\ ~(c[3] = 65535 /\ c[4] = 65535)

Below_FFFFFFFE(c) == Below_FFFFFFFF(c) /\ ~(c[3] = 65535 /\ c[4] = 65534)

\* the four value bytes of the request's last field, the initial counter
SentCounter == SubSeq(Request, Len(Request) - 3, Len(Request))

\* C5 as stated: every counter that is not strictly less than
\* 0xFFFFFFFF - 1 makes set_secret_on_device_ccid fail with no exchange.
C5_AsStated ==
  (last.op = "set_secret" /\ ~Below_FFFFFFFE(last.counter))
    => pc = "aborted" /\ Exchanges = 0

\* C5, amended: every counter that is not strictly less than 0xFFFFFFFF
\* makes set_secret_on_device_ccid fail with no exchange, and the counter
\* field of every request sent is the caller's counter, not wrapped.
C5_CounterBelowU32Max ==
  last.op = "set_secret" =>
    /\ ~Below_FFFFFFFF(last.counter) => pc = "aborted" /\ Exchanges = 0
    /\ Exchanges > 0 =>
         /\ last.counter[1] = 0 /\ last.counter[2] = 0
         /\ SentCounter = <<last.counter[3] \div 256, last.counter[3] % 256,
                            last.counter[4] \div 256, last.counter[4] % 256>>

C5_Witness ==
  /\ last.op = "set_secret"
  /\ pc = "aborted"
  /\ last.cause = "rassert counter"
  /\ last.counter = <<0, 0, 65535, 65535>>
  /\ Exchanges = 0

\* C6 as stated: whenever the response has no firmware-version field, the
\* empty response included, status_ccid gives RET_COMM_ERROR and sets
\* firmware_version to zero.
C6_AsStated ==
  (DoneOk("status") /\ last.reply.fields.ver = <<>>)
    => last.ret = RET_COMM_ERROR /\ last.outv.firmware_version = 0

\* C6, amended: a response with status word 0x9000 and data that holds no
\* firmware-version field gives RET_COMM_ERROR with firmware_version set to
\* zero, whether or not the attempt counter is there; an empty response or
\* another status word gives RET_COMM_ERROR with the caller's three
\* variables left as they were.
C6_VersionAbsent ==
  DoneOk("status") =>
    /\ (last.reply.sw = 36864 /\ last.reply.data # <<>>
        /\ last.reply.fields.ver = <<>>)
         => last.ret = RET_COMM_ERROR /\ last.outv.firmware_version = 0
    /\ (last.reply.sw # 36864 \/ last.reply.data = <<>>)
         => last.ret = RET_COMM_ERROR /\ last.outv = last.prev

C6_Witness ==
  /\ DoneOk("status")
  /\ last.reply.sw = 36864
  /\ last.reply.fields.ver = <<>>
  /\ last.reply.fields.ctr # <<>>
  /\ last.prev.firmware_version # 0
  /\ last.ret = RET_COMM_ERROR
  /\ last.outv.firmware_version = 0

\* C7: for a select response with status word 0x9000 and data, status_ccid
\* gives RET_COMM_ERROR when the version is absent; else
\* RET_NO_PIN_ATTEMPTS with attempt_counter -1 when the attempt counter is
\* absent; else RET_NO_ERROR with attempt_counter the field's byte.  In the
\* last two cases firmware_version is the field's big-endian value and
\* serial_number the big-endian value of its field, 0 when that is absent.
C7_StatusFields ==
  (DoneOk("status") /\ last.reply.sw = 36864 /\ last.reply.data # <<>>) =>
    LET f == last.reply.fields
        o == last.outv
    IN  /\ f.ver = <<>> => last.ret = RET_COMM_ERROR
        /\ (f.ver # <<>> /\ f.ctr = <<>>)
             => last.ret = RET_NO_PIN_ATTEMPTS /\ o.attempt_counter = -1
        /\ (f.ver # <<>> /\ f.ctr # <<>>)
             => /\ last.ret = RET_NO_ERROR
                /\ o.attempt_counter = f.ctr[1]
                /\ o.attempt_counter \in 0..255
        /\ f.ver # <<>> =>
             /\ o.firmware_version = 256 * f.ver[1] + f.ver[2]
             /\ o.serial_number =
                  IF f.ser = <<>> THEN <<0, 0>>
                  ELSE <<256 * f.ser[1] + f.ser[2], 256 * f.ser[3] + f.ser[4]>>
        /\ last.ret = RET_NO_ERROR => f.ver # <<>> /\ f.ctr # <<>>

C7_Witness ==
  /\ DoneOk("status")
  /\ last.reply.sw = 36864
  /\ last.reply.fields.ver = <<1, 0>>
  /\ last.reply.fields.ctr = <<>>
  /\ last.reply.fields.ser = <<>>
  /\ last.ret = RET_NO_PIN_ATTEMPTS
  /\ last.outv = [attempt_counter |-> -1, firmware_version |-> 256,
                  serial_number |-> <<0, 0>>]

\* C8: an invocation of any of the five operations makes at most one
\* transport exchange, and when the transport reports r # 0 the operation
\* returns r, having read neither status word nor data (the caller's
\* variables are as they were) and having made no second exchange.
C8_OneExchangeNoRetry ==
  /\ Exchanges <= 1
  /\ pc = "exchange" => Exchanges = 1
  /\ (pc = "idle" /\ last.op # "none" /\ last.reply.r # 0)
       => /\ last.ret = last.reply.r
          /\ last.outv = last.prev
          /\ Exchanges = 1

C8_Witness ==
  /\ Done("set_pin")
  /\ last.reply.r = -1
  /\ last.ret = -1
  /\ Exchanges = 1

\* C9: the password field of the request sent by set_pin_ccid holds the
\* first min(strlen, MAX_PIN_SIZE_CCID) bytes of the PIN, that of
\* authenticate_ccid the first min(strlen, 30); a longer PIN is cut and the
\* request still sent.
C9_PinTruncated ==
  last.op \in {"set_pin", "authenticate"} =>
    LET limit == IF last.op = "set_pin" THEN MAX_PIN_SIZE_CCID ELSE 30
        m == IF StrLen(last.pin) < limit THEN StrLen(last.pin) ELSE limit
    IN  /\ pc # "aborted"
        /\ Exchanges = 1
        /\ Len(Request) = 7 + m
        /\ Request[6] = Tag_Password
        /\ Request[7] = m
        /\ \A i \in 1..m : Request[7 + i] = last.pin[i]

C9_Witness ==
  /\ last.op = "authenticate"
  /\ pc = "exchange"
  /\ StrLen(last.pin) = 31
  /\ Request[7] = 30
  /\ Len(Request) = 37

\* C10: whatever earlier commands left in the session buffers, while the
\* request of a field-built operation is with the transport the send
\* buffer holds this request followed by zeros only and the receive buffer
\* zeros only; the buffers were cleared, then encoded into, then sent.
C10_BuffersCleared ==
  (pc = "exchange" /\ last.op \in FieldBuilt) =>
    /\ dev.ccid_buffer_in = Zeros(BufSize)
    /\ dev.ccid_buffer_out = Request \o Zeros(BufSize - Len(Request))
    /\ <<last.events[1].ev, last.events[2].ev, last.events[3].ev>>
         = <<"clean", "pack", "exchange">>

C10_Witness ==
  /\ pc = "exchange"
  /\ last.op = "verify_code"
  /\ last.stale
  /\ dev.ccid_buffer_in = Zeros(BufSize)
  /\ dev.ccid_buffer_out = Request \o Zeros(BufSize - Len(Request))

====
